---- MODULE Spec2Model ----
\* Model of covid_tests_sesab.py: the script that reconciles the three SESAB
\* extracts (CONFIRMADOS, DESCARTADOS, SUSPEITOS) of one extraction date into the
\* table of tests, keeps it in base-de-testes_<data>.csv and plots, for every
\* requested city, the rolling means of tests and of confirmed cases.
EXTENDS Integers, Sequences, FiniteSets, TLC

VARIABLES
    pasta,        \* names of the raw files in the working directory
    bruto,        \* contents of the raw files, by category: sequences of raw rows
    cache,        \* base-de-testes_<data>.csv: SemArquivo or its rows (text)
    cidades,      \* args.cidades
    janela,       \* args.janela
    pc,           \* position of the current run of the script
    arquivos,     \* glob("Banco Estadual COVID-19*") of the current run
    data,         \* extraction date read from arquivos[0]
    dados,        \* the three tables being tagged (confirmados, descartados, suspeitos)
    combinado,    \* the combined table
    i,            \* position in the loop over cidades_requisitadas
    saida,        \* what the run has produced: diagnostics and charts, in order
    achouCache,   \* whether Path(base-de-testes_<data>.csv).exists() held at line 236
    leuBrutos     \* whether this run called pd.read_csv on the raw files

vars == <<pasta, bruto, cache, cidades, janela, pc, arquivos, data, dados, combinado, i,
          saida, achouCache, leuBrutos>>

-----------------------------------------------------------------------------
\* Bounds of the model.

MaxLinhas == 1        \* rows per raw table in the reconciliation inputs
MaxConfirmados == 3   \* rows of the confirmed table in the series inputs
MaxDia == 2           \* notification days of January 2020 in the series inputs
MaxJanela == 2        \* window lengths 1..MaxJanela

-----------------------------------------------------------------------------
\* Values.

NaN == "NaN"              \* a missing text field, as pd.read_csv yields it
SemData == <<>>           \* a missing date text
SemArquivo == [existe |-> FALSE, linhas |-> <<>>]   \* the cache file does not exist
Arquivo(linhas) == [existe |-> TRUE, linhas |-> linhas]

CONFIRMADOS == "CONFIRMADOS"
DESCARTADOS == "DESCARTADOS"
SUSPEITOS == "SUSPEITOS"
Categorias == {CONFIRMADOS, DESCARTADOS, SUSPEITOS}

BAHIA == "BAHIA"
EXAME_NAO_SOLICITADO == "EXAME NAO SOLICITADO"
\* The messages of lines 239 and 155, without accents and cut short.
MSG_ARQUIVOS == "Numero de arquivos diferente de 3, cheque os arquivos e rode novamente."
MSG_SEM_REGISTRO == "Erro: Nenhum registro encontrado."

DataExtracao == "2020-07-01"

\* A raw file name "Banco Estadual COVID-19 <chave>_<data>.csv"; copia > 0 is a
\* second download of the same extract ("... (1) <chave>_<data>.csv").
NomeArquivo(chave, copia) == [chave |-> chave, data |-> DataExtracao, copia |-> copia]
NomesPossiveis ==
    {NomeArquivo(c, 0) : c \in Categorias} \cup {NomeArquivo(CONFIRMADOS, 1)}

\* arquivo.split(" ")[-1].split("_")[0] and arquivos[0].split("_")[-1].split(".")[0]
ChaveDoNome(arquivo) == arquivo.chave
DataDoNome(arquivo) == arquivo.data

-----------------------------------------------------------------------------
\* Dates.  A date text dd/mm/yyyy is <<d, m, y>>; a parsed date is the number of
\* days since 01/01/2019; the ISO text yyyy-mm-dd of the cache is <<y, m, d>>.

Bissexto(ano) == (ano % 4 = 0 /\ ano % 100 # 0) \/ ano % 400 = 0
DiasDoAno(ano) == IF Bissexto(ano) THEN 366 ELSE 365
DiasDoMes(mes, ano) ==
    IF mes = 2 THEN (IF Bissexto(ano) THEN 29 ELSE 28)
    ELSE IF mes \in {4, 6, 9, 11} THEN 30 ELSE 31

RECURSIVE DiasAntesDoMes(_, _)
DiasAntesDoMes(mes, ano) ==
    IF mes = 1 THEN 0 ELSE DiasAntesDoMes(mes - 1, ano) + DiasDoMes(mes - 1, ano)

RECURSIVE DiasAntesDoAno(_)
DiasAntesDoAno(ano) ==
    IF ano = 2019 THEN 0 ELSE DiasAntesDoAno(ano - 1) + DiasDoAno(ano - 1)

Ordinal(dia, mes, ano) == DiasAntesDoAno(ano) + DiasAntesDoMes(mes, ano) + (dia - 1)

\* pd.to_datetime(texto, format='%d/%m/%Y')
ToDatetime(texto) == Ordinal(texto[1], texto[2], texto[3])

AnosModelo == 2019..2021
\* Timestamp.year, .month, .day
AnoDe(ts) == CHOOSE a \in AnosModelo :
                DiasAntesDoAno(a) <= ts /\ ts < DiasAntesDoAno(a) + DiasDoAno(a)
MesDe(ts) ==
    LET a == AnoDe(ts)
        r == ts - DiasAntesDoAno(a)
    IN CHOOSE m \in 1..12 :
          DiasAntesDoMes(m, a) <= r /\ r < DiasAntesDoMes(m, a) + DiasDoMes(m, a)
DiaDe(ts) == ts - DiasAntesDoAno(AnoDe(ts)) - DiasAntesDoMes(MesDe(ts), AnoDe(ts)) + 1

\* to_csv writes a datetime column as yyyy-mm-dd; read_csv(parse_dates=...) reads it back
IsoFormat(ts) == <<AnoDe(ts), MesDe(ts), DiaDe(ts)>>
ParseIso(texto) == Ordinal(texto[3], texto[2], texto[1])

-----------------------------------------------------------------------------
\* Reconciliation (the branch taken when the cache file does not exist).

\* chaves = {arquivo.split(" ")[-1].split("_")[0] : arquivo for arquivo in arquivos}
Chaves(arqs) == {ChaveDoNome(a) : a \in arqs}

\* confirmados["FONTE"] = "CONFIRMADOS", ... : one row of a file, with its source
ComFonte(r, fonte) ==
    [notificacao |-> r.notificacao, municipio |-> r.municipio, tipo |-> r.tipo,
     coleta |-> r.coleta, resultado |-> r.resultado, estado |-> r.estado,
     FONTE |-> fonte]

ComTeste(r, teste) ==
    [notificacao |-> r.notificacao, municipio |-> r.municipio, tipo |-> r.tipo,
     coleta |-> r.coleta, resultado |-> r.resultado, estado |-> r.estado,
     FONTE |-> r.FONTE, TESTE |-> teste]

IsNull(v) == v = NaN

\* Variant: the override by ESTADO DO TESTE (line 282) left out.
TesteSuspeitoSemEstado(r) ==
    (~IsNull(r.tipo)) \/ (~IsNull(r.coleta)) \/ (~IsNull(r.resultado))

\* suspeitos["TESTE"] = ~isnull(TIPO) | ~isnull(DATA DA COLETA) | ~isnull(RESULTADO),
\* then .loc[ESTADO DO TESTE == "EXAME NAO SOLICITADO", ["TESTE"]] = False
TesteSuspeito(r) ==
    LET indicado == (~IsNull(r.tipo)) \/ (~IsNull(r.coleta)) \/ (~IsNull(r.resultado))
    IN IF r.estado = EXAME_NAO_SOLICITADO THEN FALSE ELSE indicado

\* Variant: the confirmed and discarded rows tagged by the rule of the suspected.
TesteComoSuspeito(r) ==
    IF r.estado = EXAME_NAO_SOLICITADO THEN FALSE
    ELSE (~IsNull(r.tipo)) \/ (~IsNull(r.coleta)) \/ (~IsNull(r.resultado))

\* confirmados["TESTE"] = True; descartados["TESTE"] = True
TesteConfirmadoDescartado(r) == TRUE

MarcarTabela(tab, fonte) ==
    [k \in 1..Len(tab) |->
        ComTeste(tab[k], IF fonte = SUSPEITOS THEN TesteSuspeito(tab[k])
                         ELSE TesteConfirmadoDescartado(tab[k]))]

\* tabela[colunas_interessantes]
Colunas(r) ==
    [notificacao |-> r.notificacao, municipio |-> r.municipio, TESTE |-> r.TESTE,
     FONTE |-> r.FONTE, coleta |-> r.coleta]

Selecionar(tab) == [k \in 1..Len(tab) |-> Colunas(tab[k])]

\* pd.concat(combinar)
Concat(d) ==
    Selecionar(d[CONFIRMADOS]) \o Selecionar(d[DESCARTADOS]) \o Selecionar(d[SUSPEITOS])

TemData(r) == r.notificacao # SemData
ComDataConvertida(r) == [r EXCEPT !.notificacao = ToDatetime(r.notificacao)]
\* Variant: the filter of line 317 one year too early.
AnoDesde2019(r) == AnoDe(r.notificacao) >= 2019
AnoValido(r) == AnoDe(r.notificacao) >= 2020

\* lines 300-317: concat, drop the rows without date, parse the dates, drop the
\* years before 2020
Montar(d) ==
    LET comData == SelectSeq(Concat(d), TemData)
        convertido == [k \in 1..Len(comData) |-> ComDataConvertida(comData[k])]
    IN SelectSeq(convertido, AnoValido)

\* Lines 241-317 in one piece: the table a rebuild would derive from raw contents b.
Reconciliar(b) ==
    Montar([c \in Categorias |->
               MarcarTabela([k \in 1..Len(b[c]) |-> ComFonte(b[c][k], c)], c)])

\* The cache file.  to_csv writes a missing value as the empty field, a boolean as
\* True/False and a date as yyyy-mm-dd; read_csv reads the empty field (and the
\* text NaN) as missing, True/False as booleans and, with parse_dates, the date.
CampoCsv(v) == IF IsNull(v) THEN "" ELSE v
LerCampo(t) == IF t = "" \/ t = "NaN" THEN NaN ELSE t
BoolCsv(b) == IF b THEN "True" ELSE "False"
LerBool(t) == t = "True"

LinhaCsv(r) ==
    [notificacao |-> IsoFormat(r.notificacao), municipio |-> CampoCsv(r.municipio),
     TESTE |-> BoolCsv(r.TESTE), FONTE |-> CampoCsv(r.FONTE),
     coleta |-> CampoCsv(r.coleta)]

LerLinha(l) ==
    [notificacao |-> ParseIso(l.notificacao), municipio |-> LerCampo(l.municipio),
     TESTE |-> LerBool(l.TESTE), FONTE |-> LerCampo(l.FONTE),
     coleta |-> LerCampo(l.coleta)]

ToCsv(tab) == [k \in 1..Len(tab) |-> LinhaCsv(tab[k])]
ReadCsv(arq) == [k \in 1..Len(arq) |-> LerLinha(arq[k])]

-----------------------------------------------------------------------------
\* Report (plotar_testes_por_cidade).

\* Variant: line 327 keeping every row.
TestadoSempre(r) == TRUE
Testado(r) == r.TESTE

\* combinado[combinado["MUNICIPIO DE RESIDENCIA"] == cidade], unless cidade is BAHIA
DaCidade(tab, cidade) ==
    IF cidade # BAHIA
    THEN LET Mora(r) == r.municipio = cidade IN SelectSeq(tab, Mora)
    ELSE tab

SoConfirmados(tab) == LET Conf(r) == r.FONTE = CONFIRMADOS IN SelectSeq(tab, Conf)

Dias(tab) == {tab[k].notificacao : k \in 1..Len(tab)}
Minimo(S) == CHOOSE x \in S : \A y \in S : x <= y
Maximo(S) == CHOOSE x \in S : \A y \in S : x >= y

\* tab.resample("1d")["TESTE"].count(): one entry per day from the first to the last
\* day of the table, the number of its rows notified on that day
Contagem(tab) ==
    IF Len(tab) = 0 THEN [d \in {} |-> 0]
    ELSE [d \in Minimo(Dias(tab))..Maximo(Dias(tab)) |->
             Cardinality({k \in 1..Len(tab) : tab[k].notificacao = d})]

RECURSIVE Soma(_, _, _)
Soma(serie, de, ate) == IF de > ate THEN 0 ELSE serie[ate] + Soma(serie, de, ate - 1)

\* A mean is the fraction <<sum, window>>; SemValor is the NaN of a series.
SemValor == <<>>

\* serie.rolling(window=w).mean(): defined once w days of the series are behind
Rolling(serie, w) ==
    [d \in DOMAIN serie |->
        IF d - w + 1 >= Minimo(DOMAIN serie)
        THEN <<Soma(serie, d - w + 1, d), w>> ELSE SemValor]

\* Variant: the threshold of lines 162-163 as >= 1.
MaiorOuIgualAUm(v) == v # SemValor /\ v[1] >= v[2]
MaiorQueUm(v) == v # SemValor /\ v[1] > v[2]

\* serie[serie > 1]
Filtrar(serie) ==
    LET fica == {d \in DOMAIN serie : MaiorQueUm(serie[d])}
    IN [d \in fica |-> serie[d]]

\* confirmado/tests: aligned on the union of the two indexes, missing where either
\* side is missing; (a/w)/(b/w) as the fraction <<a*w, w*b>>
Razao(conf, tests) ==
    [d \in (DOMAIN conf) \cup (DOMAIN tests) |->
        IF d \in DOMAIN conf /\ d \in DOMAIN tests
        THEN <<conf[d][1] * tests[d][2], conf[d][2] * tests[d][1]>>
        ELSE SemValor]

\* Variant: the confirmed series taken from the table before the filter by city.
PlotarConfirmadosDoEstado(tab, cidade, w) ==
    LET filtrado == DaCidade(tab, cidade)
        N == Len(filtrado)
        contTests == Contagem(filtrado)
        contConf == Contagem(SoConfirmados(tab))
        tests == Filtrar(Rolling(contTests, w))
        confirmado == Filtrar(Rolling(contConf, w))
    IN IF N = 0
       THEN [tipo |-> "erro", cidade |-> cidade, msg |-> MSG_SEM_REGISTRO]
       ELSE [tipo |-> "grafico", cidade |-> cidade, N |-> N, janela |-> w,
             diarioTests |-> contTests, diarioConf |-> contConf,
             tests |-> tests, confirmado |-> confirmado,
             ratio |-> Razao(confirmado, tests)]

\* What one call of plotar_testes_por_cidade produces: the diagnostic when no row
\* is left, else the figure (with the daily counts it was drawn from).
PlotarTestesPorCidade(tab, cidade, w) ==
    LET filtrado == DaCidade(tab, cidade)
        N == Len(filtrado)
        contTests == Contagem(filtrado)
        contConf == Contagem(SoConfirmados(filtrado))
        tests == Filtrar(Rolling(contTests, w))
        confirmado == Filtrar(Rolling(contConf, w))
    IN IF N = 0
       THEN [tipo |-> "erro", cidade |-> cidade, msg |-> MSG_SEM_REGISTRO]
       ELSE [tipo |-> "grafico", cidade |-> cidade, N |-> N, janela |-> w,
             diarioTests |-> contTests, diarioConf |-> contConf,
             tests |-> tests, confirmado |-> confirmado,
             ratio |-> Razao(confirmado, tests)]

-----------------------------------------------------------------------------
\* Inputs.

Tabelas(linhas, n) == UNION {[1..k -> linhas] : k \in 0..n}

ITABUNA == "ITABUNA"
ILHEUS == "ILHEUS"
SALVADOR == "SALVADOR"

\* Directory inputs: few rows, of which some pass the filters and some do not.
LinhasPasta ==
    [notificacao : {<<31, 12, 2019>>, <<1, 1, 2020>>}, municipio : {ITABUNA},
     tipo : {NaN}, coleta : {NaN}, resultado : {NaN, "POSITIVO"}, estado : {NaN}]

\* Reconciliation inputs: suspected rows over every combination of the three test
\* fields and of the state of the test; confirmed rows with the date missing, before
\* 2020 and valid; a discarded row with no test field, no city and the state
\* "EXAME NAO SOLICITADO".
LinhasSuspeitos ==
    [notificacao : {<<1, 1, 2020>>}, municipio : {ITABUNA},
     tipo : {NaN, "RT-PCR"}, coleta : {NaN, "02/01/2020"},
     resultado : {NaN, "POSITIVO"},
     estado : {NaN, EXAME_NAO_SOLICITADO, "COLETADO"}]
LinhasConfirmados ==
    [notificacao : {SemData, <<31, 12, 2019>>, <<1, 1, 2020>>}, municipio : {ITABUNA},
     tipo : {NaN}, coleta : {NaN}, resultado : {NaN}, estado : {NaN}]
LinhasDescartados ==
    [notificacao : {<<1, 1, 2020>>}, municipio : {NaN},
     tipo : {NaN}, coleta : {NaN}, resultado : {NaN},
     estado : {EXAME_NAO_SOLICITADO}]

\* Series inputs: confirmed and discarded rows over the days 1..MaxDia of January
\* 2020, in two cities, and a suspected row, tested or not.
DiasSerie == {<<d, 1, 2020>> : d \in 1..MaxDia}
LinhasSerieConfirmados ==
    [notificacao : DiasSerie, municipio : {ITABUNA},
     tipo : {NaN}, coleta : {NaN}, resultado : {NaN}, estado : {NaN}]
LinhasSerieDescartados ==
    [notificacao : DiasSerie, municipio : {ITABUNA, ILHEUS},
     tipo : {NaN}, coleta : {NaN}, resultado : {NaN}, estado : {NaN}]
LinhasSerieSuspeitos ==
    [notificacao : {<<1, 1, 2020>>}, municipio : {ITABUNA},
     tipo : {NaN}, coleta : {NaN}, resultado : {NaN, "POSITIVO"}, estado : {NaN}]

ListasDeCidades ==
    {<<>>, <<SALVADOR, ITABUNA>>, <<ILHEUS, SALVADOR, BAHIA>>}

PastaCompleta == {NomeArquivo(c, 0) : c \in Categorias}

-----------------------------------------------------------------------------
\* The state machine: runs of the script, one after another, in one directory.

InitExecucao ==
    /\ pc = "idle"
    /\ arquivos = {}
    /\ data = ""
    /\ dados = [c \in Categorias |-> <<>>]
    /\ combinado = <<>>
    /\ i = 0
    /\ saida = <<>>
    /\ achouCache = FALSE
    /\ leuBrutos = FALSE

\* A directory with the three extracts and no cache file yet.
Init ==
    /\ pasta = PastaCompleta
    /\ bruto \in [CONFIRMADOS : Tabelas(LinhasPasta, MaxLinhas),
                  DESCARTADOS : {<<>>},
                  SUSPEITOS : Tabelas(LinhasPasta, MaxLinhas)]
    /\ cache = SemArquivo
    /\ cidades = <<BAHIA>>
    /\ janela = 1
    /\ InitExecucao

InitReconciliacao ==
    /\ pasta = PastaCompleta
    /\ bruto \in [CONFIRMADOS : Tabelas(LinhasConfirmados, MaxLinhas),
                  DESCARTADOS : Tabelas(LinhasDescartados, MaxLinhas),
                  SUSPEITOS : Tabelas(LinhasSuspeitos, MaxLinhas)]
    /\ cache = SemArquivo
    /\ cidades = <<BAHIA>>
    /\ janela = 1
    /\ InitExecucao

InitSeries ==
    /\ pasta = PastaCompleta
    /\ bruto \in [CONFIRMADOS : Tabelas(LinhasSerieConfirmados, MaxConfirmados),
                  DESCARTADOS : Tabelas(LinhasSerieDescartados, 1),
                  SUSPEITOS : Tabelas(LinhasSerieSuspeitos, 1)]
    /\ cache = SemArquivo
    /\ cidades \in ListasDeCidades
    /\ janela \in 1..MaxJanela
    /\ InitExecucao

\* Lines 224-232 with no raw file in the directory: arquivos[0] raises IndexError.
SemArquivos ==
    /\ pc = "idle"
    /\ pasta = {}
    /\ arquivos' = pasta
    /\ pc' = "crashed"
    /\ UNCHANGED <<pasta, bruto, cache, cidades, janela, data, dados, combinado, i,
                   saida, achouCache, leuBrutos>>

\* Lines 231-239: the cache file is absent and the raw files are not three.
NumeroErrado ==
    /\ pc = "idle"
    /\ \E primeiro \in pasta :
          /\ arquivos' = pasta
          /\ data' = DataDoNome(primeiro)
    /\ ~cache.existe
    /\ achouCache' = FALSE
    /\ Cardinality(pasta) # 3
    /\ saida' = <<[tipo |-> "exit", msg |-> MSG_ARQUIVOS]>>
    /\ pc' = "exited"
    /\ UNCHANGED <<pasta, bruto, cache, cidades, janela, dados, combinado, i, leuBrutos>>

\* Lines 231-260: the cache file is absent and there are three raw files; they are
\* read, and dados["CONFIRMADOS"], ["DESCARTADOS"], ["SUSPEITOS"] raises KeyError
\* when two of them are of the same category.
CarregarBrutos ==
    /\ pc = "idle"
    /\ \E primeiro \in pasta :
          /\ arquivos' = pasta
          /\ data' = DataDoNome(primeiro)
    /\ ~cache.existe
    /\ achouCache' = FALSE
    /\ Cardinality(pasta) = 3
    /\ leuBrutos' = TRUE
    /\ IF Categorias \subseteq Chaves(pasta)
       THEN /\ dados' = [c \in Categorias |->
                            [k \in 1..Len(bruto[c]) |-> ComFonte(bruto[c][k], c)]]
            /\ pc' = "carregado"
       ELSE /\ pc' = "crashed"
            /\ UNCHANGED dados
    /\ UNCHANGED <<pasta, bruto, cache, cidades, janela, combinado, i, saida>>

\* Lines 262-282: the TESTE column of the three tables.
MarcarTestes ==
    /\ pc = "carregado"
    /\ dados' = [c \in Categorias |-> MarcarTabela(dados[c], c)]
    /\ pc' = "marcado"
    /\ UNCHANGED <<pasta, bruto, cache, cidades, janela, arquivos, data, combinado, i,
                   saida, achouCache, leuBrutos>>

\* Lines 284-320: the combined table, filtered, and written to the cache file.
MontarTabela ==
    /\ pc = "marcado"
    /\ combinado' = Montar(dados)
    /\ cache' = Arquivo(ToCsv(combinado'))
    /\ pc' = "pronto"
    /\ UNCHANGED <<pasta, bruto, cidades, janela, arquivos, data, dados, i, saida,
                   achouCache, leuBrutos>>

\* Variant: the cache file is found, and the raw files are reprocessed all the same.
CarregarCacheReprocessa ==
    /\ pc = "idle"
    /\ \E primeiro \in pasta :
          /\ arquivos' = pasta
          /\ data' = DataDoNome(primeiro)
    /\ cache.existe
    /\ achouCache' = TRUE
    /\ combinado' = Reconciliar(bruto)
    /\ cache' = Arquivo(ToCsv(combinado'))
    /\ pc' = "pronto"
    /\ UNCHANGED <<pasta, bruto, cidades, janela, dados, i, saida, leuBrutos>>

\* Variant: the number of raw files checked before the cache file is looked up.
CarregarCacheExigeTres ==
    /\ pc = "idle"
    /\ \E primeiro \in pasta :
          /\ arquivos' = pasta
          /\ data' = DataDoNome(primeiro)
    /\ cache.existe
    /\ IF Cardinality(pasta) # 3
       THEN /\ pc' = "exited"
            /\ saida' = <<[tipo |-> "exit", msg |-> MSG_ARQUIVOS]>>
            /\ UNCHANGED <<combinado, achouCache>>
       ELSE /\ achouCache' = TRUE
            /\ combinado' = ReadCsv(cache.linhas)
            /\ pc' = "pronto"
            /\ UNCHANGED saida
    /\ UNCHANGED <<pasta, bruto, cache, cidades, janela, dados, i, leuBrutos>>

\* Lines 231-236 and 322-325: the cache file exists and is read.
CarregarCache ==
    /\ pc = "idle"
    /\ \E primeiro \in pasta :
          /\ arquivos' = pasta
          /\ data' = DataDoNome(primeiro)
    /\ cache.existe
    /\ achouCache' = TRUE
    /\ combinado' = ReadCsv(cache.linhas)
    /\ pc' = "pronto"
    /\ UNCHANGED <<pasta, bruto, cache, cidades, janela, dados, i, saida, leuBrutos>>

\* Lines 327-330: only the tested rows are kept, indexed by notification date.
FiltrarTestados ==
    /\ pc = "pronto"
    /\ combinado' = SelectSeq(combinado, Testado)
    /\ i' = 1
    /\ pc' = "plotando"
    /\ UNCHANGED <<pasta, bruto, cache, cidades, janela, arquivos, data, dados, saida,
                   achouCache, leuBrutos>>

\* Variant: a city without rows ends the loop.
PlotarAteOErro ==
    /\ pc = "plotando"
    /\ i <= Len(cidades)
    /\ LET r == PlotarTestesPorCidade(combinado, cidades[i], janela)
       IN /\ saida' = Append(saida, r)
          /\ i' = IF r.tipo = "erro" THEN Len(cidades) + 1 ELSE i + 1
    /\ UNCHANGED <<pasta, bruto, cache, cidades, janela, pc, arquivos, data, dados,
                   combinado, achouCache, leuBrutos>>

\* Lines 332-337: one turn of the loop over the requested cities.
Plotar ==
    /\ pc = "plotando"
    /\ i <= Len(cidades)
    /\ saida' = Append(saida, PlotarTestesPorCidade(combinado, cidades[i], janela))
    /\ i' = i + 1
    /\ UNCHANGED <<pasta, bruto, cache, cidades, janela, pc, arquivos, data, dados,
                   combinado, achouCache, leuBrutos>>

\* The loop is over: the script ends.
Terminar ==
    /\ pc = "plotando"
    /\ i > Len(cidades)
    /\ pc' = "done"
    /\ UNCHANGED <<pasta, bruto, cache, cidades, janela, arquivos, data, dados,
                   combinado, i, saida, achouCache, leuBrutos>>

Encerrada == pc \in {"done", "exited", "crashed"}

\* The process is gone; the directory is as it left it, ready for the next run.
NovaExecucao ==
    /\ Encerrada
    /\ pc' = "idle"
    /\ arquivos' = {}
    /\ data' = ""
    /\ dados' = [c \in Categorias |-> <<>>]
    /\ combinado' = <<>>
    /\ i' = 0
    /\ saida' = <<>>
    /\ achouCache' = FALSE
    /\ leuBrutos' = FALSE
    /\ UNCHANGED <<pasta, bruto, cache, cidades, janela>>

\* Between two runs the user downloads or deletes a raw file, or a raw file changes.
BaixarArquivo ==
    /\ pc = "idle"
    /\ \E a \in NomesPossiveis \ pasta : pasta' = pasta \cup {a}
    /\ UNCHANGED <<bruto, cache, cidades, janela, pc, arquivos, data, dados, combinado,
                   i, saida, achouCache, leuBrutos>>

ApagarArquivo ==
    /\ pc = "idle"
    /\ \E a \in pasta : pasta' = pasta \ {a}
    /\ UNCHANGED <<bruto, cache, cidades, janela, pc, arquivos, data, dados, combinado,
                   i, saida, achouCache, leuBrutos>>

AlterarBruto ==
    /\ pc = "idle"
    /\ \E c \in Categorias :
          /\ Len(bruto[c]) > 0
          /\ bruto' = [bruto EXCEPT ![c] = SubSeq(bruto[c], 1, Len(bruto[c]) - 1)]
    /\ UNCHANGED <<pasta, cache, cidades, janela, pc, arquivos, data, dados, combinado,
                   i, saida, achouCache, leuBrutos>>

Next ==
    \/ SemArquivos
    \/ NumeroErrado
    \/ CarregarBrutos
    \/ MarcarTestes
    \/ MontarTabela
    \/ CarregarCache
    \/ FiltrarTestados
    \/ Plotar
    \/ Terminar
    \/ NovaExecucao
    \/ BaixarArquivo
    \/ ApagarArquivo
    \/ AlterarBruto

\* The runs alone, in a directory that nothing else touches.
NextExecucoes ==
    \/ CarregarBrutos
    \/ MarcarTestes
    \/ MontarTabela
    \/ CarregarCache
    \/ FiltrarTestados
    \/ Plotar
    \/ Terminar
    \/ NovaExecucao

Spec == Init /\ [][Next]_vars
SpecReconciliacao == InitReconciliacao /\ [][NextExecucoes]_vars
SpecSeries == InitSeries /\ [][NextExecucoes]_vars
-----------------------------------------------------------------------------
\* Properties.

\* The run is on the rebuild branch and past lines 266-282.
Marcados == leuBrutos /\ pc \in {"marcado", "pronto", "plotando", "done"}
\* The combined table is in memory, before (pronto) or after the filter of line 327.
NaReportagem == pc \in {"pronto", "plotando", "done"}

Reconciliada == ReadCsv(cache.linhas)
Graficos == {k \in 1..Len(saida) : saida[k].tipo = "grafico"}

\* C1: after the tagging of the suspected table, every row has TESTE = TRUE exactly
\* when one of TIPO DE TESTE, DATA DA COLETA DO TESTE, RESULTADO DO TESTE is not null
\* and ESTADO DO TESTE is not "EXAME NAO SOLICITADO".
C1_TesteDosSuspeitos ==
    Marcados =>
        /\ Len(dados[SUSPEITOS]) = Len(bruto[SUSPEITOS])
        /\ \A k \in 1..Len(bruto[SUSPEITOS]) :
              LET r == bruto[SUSPEITOS][k]
              IN dados[SUSPEITOS][k].TESTE =
                    (/\ (r.tipo # NaN \/ r.coleta # NaN \/ r.resultado # NaN)
                     /\ r.estado # EXAME_NAO_SOLICITADO)

C1_Witness ==
    /\ Marcados
    /\ \E k \in 1..Len(dados[SUSPEITOS]) :
          /\ bruto[SUSPEITOS][k].tipo # NaN
          /\ bruto[SUSPEITOS][k].estado = EXAME_NAO_SOLICITADO
          /\ dados[SUSPEITOS][k].TESTE = FALSE

\* C2: every row whose source is CONFIRMADOS or DESCARTADOS has TESTE = TRUE: in the
\* tagged tables, in the combined table in memory and in the cache file.
C2_ConfirmadosDescartadosTestados ==
    /\ Marcados =>
          \A c \in {CONFIRMADOS, DESCARTADOS} :
              /\ Len(dados[c]) = Len(bruto[c])
              /\ \A k \in 1..Len(dados[c]) : dados[c][k].TESTE = TRUE
    /\ NaReportagem =>
          \A k \in 1..Len(combinado) :
              combinado[k].FONTE \in {CONFIRMADOS, DESCARTADOS} => combinado[k].TESTE = TRUE
    /\ cache.existe =>
          \A k \in 1..Len(cache.linhas) :
              cache.linhas[k].FONTE \in {CONFIRMADOS, DESCARTADOS}
                  => cache.linhas[k].TESTE = "True"

C2_Witness ==
    /\ pc = "pronto"
    /\ achouCache
    /\ \E k \in 1..Len(combinado) :
          combinado[k].FONTE = DESCARTADOS /\ combinado[k].TESTE = TRUE
    /\ \E k \in 1..Len(bruto[DESCARTADOS]) :
          /\ bruto[DESCARTADOS][k].estado = EXAME_NAO_SOLICITADO
          /\ bruto[DESCARTADOS][k].resultado = NaN

\* The raw rows whose date is present and of 2020 or later, in number.
DataBoa(r) == r.notificacao # SemData /\ r.notificacao[3] >= 2020
BoasDe(tab) == Cardinality({k \in 1..Len(tab) : DataBoa(tab[k])})
LinhasBoas(b) == BoasDe(b[CONFIRMADOS]) + BoasDe(b[DESCARTADOS]) + BoasDe(b[SUSPEITOS])

\* C3: on both branches every row of the table that reaches line 327 and the loop of
\* reports has a boolean TESTE and a notification date of 2020 or later; the rows
\* without such a date were left out when the cache was built (one row per raw row
\* with a good date), and line 327 removes the untested rows and no other.
C3_DatasValidas ==
    /\ NaReportagem =>
          \A k \in 1..Len(combinado) :
              /\ combinado[k].TESTE \in BOOLEAN
              /\ combinado[k].notificacao \in Nat
              /\ AnoDe(combinado[k].notificacao) >= 2020
    /\ pc = "pronto" =>
          /\ combinado = Reconciliada
          /\ Len(combinado) = LinhasBoas(bruto)
    /\ pc \in {"plotando", "done"} =>
          /\ combinado = SelectSeq(Reconciliada, Testado)
          /\ \A k \in Graficos : saida[k].cidade = BAHIA => saida[k].N = Len(combinado)

C3_Witness ==
    /\ pc = "plotando"
    /\ achouCache
    /\ Len(combinado) > 0
    /\ \E k \in 1..Len(bruto[CONFIRMADOS]) : ~DataBoa(bruto[CONFIRMADOS][k])

\* What the loop of reports produces from a table already filtered, for the first n
\* requested cities.
RelatoriosDe(tab, n) ==
    [k \in 1..n |-> PlotarTestesPorCidade(tab, cidades[k], janela)]

\* A run that found the cache file works from it alone: it reads no raw file and
\* its table and its reports are those of the cache file.
UsaSoOCache ==
    achouCache =>
        /\ ~leuBrutos
        /\ cache.existe
        /\ pc = "pronto" => combinado = Reconciliada
        /\ pc \in {"plotando", "done"} =>
              /\ combinado = SelectSeq(Reconciliada, Testado)
              /\ saida = RelatoriosDe(SelectSeq(Reconciliada, Testado), Len(saida))

\* The cache file, once there, is never written again, and is written only by the
\* rebuild branch of a run that found it absent.
EscritaUnica ==
    /\ cache.existe => cache' = cache
    /\ cache' # cache => (pc = "marcado" /\ ~achouCache /\ leuBrutos)

\* C4 as stated: the cache file is written by the first run that finds it absent
\* (so a run that found it absent and ended has left it written), and a run that
\* finds it present works from it alone.
C4_EscritoPelaPrimeiraExecucao ==
    /\ (pc \in {"done", "exited"} /\ ~achouCache) => cache.existe
    /\ UsaSoOCache

\* C4, amended: the cache file is written at most once, by the first run that finds
\* it absent together with exactly three raw files, one per category (a run that
\* finds it absent with any other set of raw files ends without writing it); every
\* later run finds it present, leaves it unchanged and works from it alone, so a
\* change of the raw files made after the write shows in no later report.
C4_EscritoNoMaximoUmaVez ==
    /\ [][EscritaUnica]_vars
    /\ [](/\ (pc = "done" /\ ~achouCache) =>
                (cache.existe /\ Cardinality(arquivos) = 3 /\ Chaves(arquivos) = Categorias)
          /\ (pc \in {"exited", "crashed"}) => (~achouCache /\ combinado = <<>>)
          /\ (pc = "exited") => ~cache.existe
          /\ (~achouCache /\ pc \in {"idle", "carregado", "marcado"} /\ arquivos # {})
                => ~cache.existe
          /\ UsaSoOCache)

C4_Witness ==
    /\ pc = "done"
    /\ achouCache
    /\ Reconciliar(bruto) # Reconciliada
    /\ \E k \in Graficos : saida[k].N = Len(Reconciliada) /\ saida[k].N > Len(Reconciliar(bruto))

\* C5: a run that ends having found no cache file and a number of raw files other
\* than three (none included) has ended with the exit message of line 239, with no
\* cache file written and no chart.
C5_SaidaFatal ==
    (Encerrada /\ ~cache.existe /\ Cardinality(arquivos) # 3) =>
        /\ pc = "exited"
        /\ saida = <<[tipo |-> "exit", msg |-> MSG_ARQUIVOS]>>

\* C10: a run is at the reports only if it found a raw file; with no raw file it
\* ends in the IndexError of line 232 with nothing produced, cache file or not; with
\* the cache file present and one raw file or more, whatever their number, it runs
\* to the end of the reports.
C10_PrecisaDeUmArquivoBruto ==
    /\ NaReportagem => arquivos # {}
    /\ (Encerrada /\ arquivos = {}) => (pc = "crashed" /\ saida = <<>> /\ combinado = <<>>)
    /\ (Encerrada /\ arquivos # {} /\ cache.existe /\ ~leuBrutos) =>
          (pc = "done" /\ achouCache /\ Len(saida) = Len(cidades))

C10_Witness ==
    /\ pc = "crashed"
    /\ arquivos = {}
    /\ cache.existe

\* The tested rows of the reconciled table that count for a requested name.
ContamEm(T, cidade) ==
    {k \in 1..Len(T) : T[k].TESTE = TRUE /\ (cidade = BAHIA \/ T[k].municipio = cidade)}
ContamPara(cidade) == ContamEm(Reconciliada, cidade)

\* C6: the requested cities are reported one at a time in the order given (after
\* i - 1 turns of the loop the output holds one entry per city, in that order); a
\* city with no tested row gets the diagnostic and no chart, the run does not crash,
\* and the run ends only when every requested city, those after it too, has its entry.
C6_CidadesEmOrdem ==
    /\ pc \in {"plotando", "done"} =>
          /\ Len(saida) = i - 1
          /\ Len(saida) <= Len(cidades)
          /\ \A k \in 1..Len(saida) :
                /\ saida[k].cidade = cidades[k]
                /\ saida[k].tipo \in {"erro", "grafico"}
                /\ saida[k].tipo = "erro" <=> ContamPara(cidades[k]) = {}
    /\ pc = "done" => Len(saida) = Len(cidades)
    /\ pc # "crashed"

C6_Witness ==
    /\ pc = "done"
    /\ \E k \in 1..(Len(saida) - 1) :
          saida[k].tipo = "erro" /\ saida[k + 1].tipo = "grafico"

\* C7: the N of a report is the number of reconciled rows with TESTE = TRUE when
\* BAHIA is requested, and the number of those whose municipality equals the
\* requested name otherwise (no chart when there is none); untested rows never count.
C7_TotalDeTestes ==
    \A k \in 1..Len(saida) :
        /\ saida[k].tipo = "grafico" => saida[k].N = Cardinality(ContamPara(saida[k].cidade))
        /\ saida[k].tipo = "erro" => ContamPara(saida[k].cidade) = {}

C7_Witness ==
    /\ \E k \in Graficos :
          /\ saida[k].cidade = ITABUNA
          /\ saida[k].N < Cardinality(ContamPara(BAHIA))
    /\ LET T == Reconciliada
       IN \E k \in 1..Len(T) : T[k].TESTE = FALSE /\ T[k].municipio = ITABUNA

\* The rows of the reconciled table behind the daily counts of a report.
NoDia(T, cidade, d) == {k \in ContamEm(T, cidade) : T[k].notificacao = d}
ConfirmadosNoDia(T, cidade, d) == {k \in NoDia(T, cidade, d) : T[k].FONTE = CONFIRMADOS}

\* C8: in every report, on every day, the daily count of confirmed rows is at most
\* the daily count of tested rows (each being the count of the rows of that day in
\* the reconciled table), and every value of the ratio is at most 1.
C8_ConfirmadosNaoExcedemTestes ==
    \A k \in Graficos :
        LET g == saida[k]
            T == Reconciliada
        IN
        /\ \A d \in DOMAIN g.diarioTests :
              g.diarioTests[d] = Cardinality(NoDia(T, g.cidade, d))
        /\ \A d \in DOMAIN g.diarioConf :
              /\ g.diarioConf[d] = Cardinality(ConfirmadosNoDia(T, g.cidade, d))
              /\ d \in DOMAIN g.diarioTests
              /\ g.diarioConf[d] <= g.diarioTests[d]
        /\ \A d \in DOMAIN g.ratio :
              g.ratio[d] # SemValor => g.ratio[d][1] <= g.ratio[d][2]

C8_Witness ==
    \E k \in Graficos :
        \E d \in DOMAIN saida[k].ratio :
            /\ saida[k].ratio[d] # SemValor
            /\ saida[k].ratio[d][1] < saida[k].ratio[d][2]
            /\ saida[k].diarioConf[d] < saida[k].diarioTests[d]

\* The sum of the w days of a daily series that end on day d.
RECURSIVE TotalDaJanela(_, _, _)
TotalDaJanela(diario, d, w) ==
    IF w = 0 THEN 0 ELSE diario[d] + TotalDaJanela(diario, d - 1, w - 1)

\* Day d is kept: the w days ending on it lie in the series and sum to more than w.
Mantido(diario, d, w) ==
    /\ d \in DOMAIN diario
    /\ (d - w + 1) \in DOMAIN diario
    /\ TotalDaJanela(diario, d, w) > w

\* C9: in a report with window w, a day is in the tested (the confirmed) series
\* exactly when its trailing w-day mean is defined in that series' own range of days
\* and is greater than 1, with the mean as its value; the ratio has a value on a
\* day exactly when the day is in both series, and is missing, not zero, otherwise.
C9_LimiarEDiasDaRazao ==
    \A k \in Graficos :
        LET g == saida[k]
            w == g.janela
        IN
        /\ w = janela
        /\ DOMAIN g.tests = {d \in DOMAIN g.diarioTests : Mantido(g.diarioTests, d, w)}
        /\ DOMAIN g.confirmado = {d \in DOMAIN g.diarioConf : Mantido(g.diarioConf, d, w)}
        /\ \A d \in DOMAIN g.tests : g.tests[d] = <<TotalDaJanela(g.diarioTests, d, w), w>>
        /\ \A d \in DOMAIN g.confirmado :
              g.confirmado[d] = <<TotalDaJanela(g.diarioConf, d, w), w>>
        /\ DOMAIN g.ratio = (DOMAIN g.tests) \cup (DOMAIN g.confirmado)
        /\ \A d \in DOMAIN g.ratio :
              /\ g.ratio[d] # SemValor <=> (d \in DOMAIN g.tests /\ d \in DOMAIN g.confirmado)
              /\ g.ratio[d] # SemValor => (g.ratio[d][1] > 0 /\ g.ratio[d][2] > 0)

C9_Witness ==
    \E k \in Graficos :
        LET g == saida[k] IN
        /\ \E d \in DOMAIN g.ratio : g.ratio[d] # SemValor
        /\ \E d \in DOMAIN g.tests :
              /\ d \in DOMAIN g.diarioConf
              /\ d \notin DOMAIN g.confirmado
              /\ g.ratio[d] = SemValor
====
